---------------------------- MODULE Spec2Model ----------------------------
(***************************************************************************)
(* Model of tokenQuery (src/QueryBuilder/typeQueries/tokenQuery.ts): the   *)
(* translation of a FHIR token search value into an Elasticsearch query   *)
(* fragment.  tokenQuery is a pure function of its four arguments and of  *)
(* the read-only module constant tokenDataTypesMap.  The state machine    *)
(* draws the arguments and the type map from bounded sets and applies the *)
(* function once.                                                          *)
(*                                                                         *)
(* Conventions.                                                            *)
(*  - A JavaScript object is a function whose domain is the set of its    *)
(*    own property names; a property that is absent reads as undefined.   *)
(*    `k in o` also sees the properties o inherits: the type map and its  *)
(*    entries come from JSON and inherit from Object.prototype, whose     *)
(*    properties are functions that inherit from Function.prototype.      *)
(*  - The optional argument `modifier?: string` is the set of the strings *)
(*    passed: {} when the argument is omitted (undefined), {m} otherwise. *)
(*  - Strings are TLA+ strings, template literals are concatenations.     *)
(***************************************************************************)
EXTENDS Integers, Sequences, FiniteSets, TLC

VARIABLES
    tokenDataTypesMap,    \* resourceType -> path -> list of {code: tag}
    compiled,             \* CompiledSearchParam {resourceType, path}
    value,                \* TokenSearchValue {system?, code?, explicitNoSystemProperty?}
    useKeywordSubFields,  \* boolean
    modifier,             \* optional string
    outcome               \* what the call did: pending, return or throw

vars == <<tokenDataTypesMap, compiled, value, useKeywordSubFields, modifier, outcome>>

-----------------------------------------------------------------------------
(* Bounds and input domains *)

MaxTags == 2

ResourceTypes == {"Patient", "constructor", "__proto__"}
MappedResourceTypes == {"Patient"}
MappedPaths == {"id", "active"}
Paths == MappedPaths \cup {"constructor", "caller", "__proto__"}
RecognizedTags == {"Identifier", "code", "CodeableConcept", "id", "string",
                   "boolean", "Coding", "ContactPoint"}
Tags == RecognizedTags \cup {"uri"}
SystemValues == {"", "http://sys"}
CodeValues == {"", "123"}
ModifierValues == {"", "exact"}

TagLists == UNION {[1..n -> [code : Tags]] : n \in 0..MaxTags}

Restrict(f, D) == [k \in D |-> f[k]]

\* every object with any subset of the three optional properties
TokenSearchValues ==
    {Restrict(full, D) :
        full \in [system : SystemValues, code : CodeValues,
                  explicitNoSystemProperty : BOOLEAN],
        D \in SUBSET {"system", "code", "explicitNoSystemProperty"}}

\* type maps: no entry at all, an entry for the resource type with no path,
\* or an entry for the resource type with one path and its list of tags
TypeMaps ==
    {Restrict([r \in MappedResourceTypes |-> <<>>], D) : D \in SUBSET MappedResourceTypes}
    \cup {[r \in MappedResourceTypes |-> [p \in {q} |-> l]] : q \in MappedPaths, l \in TagLists}

-----------------------------------------------------------------------------
(* Module constants of tokenQuery.ts *)

FIELDS_WITHOUT_KEYWORD == {"id"}
SUPPORTED_MODIFIERS == {}

-----------------------------------------------------------------------------
(* Helpers of the function body *)

\* `modifier && !SUPPORTED_MODIFIERS.includes(modifier)`: a string is truthy
\* iff it is not empty
modifierRejected(mod) ==
    \E m \in mod : m # "" /\ m \notin SUPPORTED_MODIFIERS

keywordSuffixAlways(path, useKeyword) ==
    useKeyword
useKeywordSuffix(path, useKeyword) ==
    useKeyword /\ path \notin FIELDS_WITHOUT_KEYWORD

keywordSuffix(path, useKeyword) ==
    IF useKeywordSuffix(path, useKeyword) THEN ".keyword" ELSE ""

\* The string-named properties every object literal inherits
ObjectPrototypeKeys ==
    {"constructor", "__defineGetter__", "__defineSetter__", "hasOwnProperty",
     "__lookupGetter__", "__lookupSetter__", "isPrototypeOf",
     "propertyIsEnumerable", "toString", "valueOf", "__proto__", "toLocaleString"}

\* The string-named properties every function inherits
FunctionPrototypeKeys ==
    {"length", "name", "arguments", "caller", "constructor", "apply", "bind",
     "call", "toString"}

\* The own properties of the function Object
ObjectConstructorKeys ==
    {"length", "name", "prototype", "assign", "getOwnPropertyDescriptor",
     "getOwnPropertyDescriptors", "getOwnPropertyNames", "getOwnPropertySymbols",
     "hasOwn", "is", "preventExtensions", "seal", "create", "defineProperties",
     "defineProperty", "freeze", "getPrototypeOf", "setPrototypeOf",
     "isExtensible", "isFrozen", "isSealed", "keys", "entries", "fromEntries",
     "values"}

\* `key in tokenDataTypesMap[resourceType]` when the entry is inherited: the
\* entry is Object.prototype itself for __proto__, a function otherwise
inInheritedEntry(resourceType, key) ==
    IF resourceType = "__proto__"
    THEN key \in ObjectPrototypeKeys
    ELSE \/ key \in FunctionPrototypeKeys
         \/ key \in ObjectPrototypeKeys
         \/ resourceType = "constructor" /\ key \in ObjectConstructorKeys

\* the map holds a list of its own for the compiled parameter
ownDataTypes(c) ==
    /\ c.resourceType \in DOMAIN tokenDataTypesMap
    /\ c.path \in DOMAIN tokenDataTypesMap[c.resourceType]

dataTypeExists(c) ==
    /\ \/ c.resourceType \in DOMAIN tokenDataTypesMap
       \/ c.resourceType \in ObjectPrototypeKeys
    /\ IF c.resourceType \in DOMAIN tokenDataTypesMap
       THEN \/ c.path \in DOMAIN tokenDataTypesMap[c.resourceType]
            \/ c.path \in ObjectPrototypeKeys
       ELSE inInheritedEntry(c.resourceType, c.path)

\* The accessors of Function.prototype that throw when they are read on a
\* built-in function
PoisonedFunctionKeys == {"caller", "arguments"}

\* `dataTypes` (line 46): a list of the map, the empty list when no type
\* exists, or an inherited property.  Reading the inherited property throws
\* when the entry is an inherited function and the path names a poisoned
\* accessor; it is null when the entry is the inherited Object.prototype and
\* the path is __proto__; otherwise its value (a function, a string, a number
\* or an object) is not an array.
dataTypes(c) ==
    IF ~dataTypeExists(c)
    THEN [array |-> TRUE, items |-> <<>>, null |-> FALSE, throws |-> FALSE]
    ELSE IF ownDataTypes(c)
         THEN [array |-> TRUE, items |-> tokenDataTypesMap[c.resourceType][c.path],
               null |-> FALSE, throws |-> FALSE]
         ELSE [array  |-> FALSE, items |-> <<>>,
               null   |-> /\ c.resourceType \notin DOMAIN tokenDataTypesMap
                          /\ c.resourceType = "__proto__"
                          /\ c.path = "__proto__",
               throws |-> /\ c.resourceType \notin DOMAIN tokenDataTypesMap
                          /\ c.resourceType # "__proto__"
                          /\ c.path \in PoisonedFunctionKeys]

\* the read `tokenDataTypesMap[compiled.resourceType][compiled.path]` of a
\* poisoned accessor (line 46)
readError ==
    [kind    |-> "throw",
     name    |-> "TypeError",
     message |-> "'caller', 'callee', and 'arguments' properties may not be accessed on strict mode functions or the arguments objects for calls to them"]

\* `dataTypes.forEach(...)` on a value that is not an array (line 55)
forEachError(types) ==
    [kind    |-> "throw",
     name    |-> "TypeError",
     message |-> IF types.null
                 THEN "Cannot read properties of null (reading 'forEach')"
                 ELSE "dataTypes.forEach is not a function"]

\* the accumulation `hasX = hasX || dataType.code === 'X'` over the list
hasType(types, tag) == \E i \in DOMAIN types : types[i].code = tag
hasIdentifierType(types) == hasType(types, "Identifier")
hasCodeType(types) == hasType(types, "code")
hasCodeableConceptType(types) == hasType(types, "CodeableConcept")
hasIdType(types) == hasType(types, "id")
hasStringType(types) == hasType(types, "string")
hasBooleanType(types) == hasType(types, "boolean")
hasCodingType(types) == hasType(types, "Coding")
hasContactPointType(types) == hasType(types, "ContactPoint")

\* `if (cond) fields.push(...items)`
PushIf(cond, items) == IF cond THEN items ELSE <<>>

-----------------------------------------------------------------------------
(* System-field selection, lines 67-90 *)

systemFieldsIdentifierOnly(path, exists, types, suffix) ==
    IF exists
    THEN LET selected ==
                 PushIf(hasIdentifierType(types),
                        <<path \o ".system" \o suffix>>)
                 \o PushIf(hasCodeableConceptType(types),
                           <<path \o ".coding.system" \o suffix>>)
         IN  IF Len(selected) = 0
             THEN <<path \o ".system" \o suffix, path \o ".coding.system" \o suffix>>
             ELSE selected
    ELSE <<path \o ".system" \o suffix, path \o ".coding.system" \o suffix>>
systemFields(path, exists, types, suffix) ==
    IF exists
    THEN LET selected ==
                 PushIf(hasIdentifierType(types) \/ hasCodingType(types),
                        <<path \o ".system" \o suffix>>)
                 \o PushIf(hasCodeableConceptType(types),
                           <<path \o ".coding.system" \o suffix>>)
         IN  IF Len(selected) = 0
             THEN <<path \o ".system" \o suffix, path \o ".coding.system" \o suffix>>
             ELSE selected
    ELSE <<path \o ".system" \o suffix, path \o ".coding.system" \o suffix>>

-----------------------------------------------------------------------------
(* Code-field selection when the type is known, lines 108-144 *)

\* the fail-safe forgets <path><suffix>
codeFieldsKnownShortFallback(path, types, useSuffix, suffix) ==
    LET selected ==
            PushIf(hasCodingType(types), <<path \o ".code" \o suffix>>)
            \o PushIf(hasCodeableConceptType(types), <<path \o ".coding.code" \o suffix>>)
            \o PushIf(hasIdentifierType(types) \/ hasContactPointType(types),
                      <<path \o ".value" \o suffix>>)
            \o PushIf(hasCodeType(types) \/ hasStringType(types)
                          \/ hasBooleanType(types) \/ hasIdType(types),
                      PushIf(useSuffix /\ hasBooleanType(types), <<path>>)
                      \o <<path \o suffix>>)
    IN  IF Len(selected) = 0
        THEN <<path \o ".code" \o suffix, path \o ".coding.code" \o suffix,
               path \o ".value" \o suffix>>
        ELSE selected
\* the bare path is never added for booleans
codeFieldsKnownNoBarePath(path, types, useSuffix, suffix) ==
    LET selected ==
            PushIf(hasCodingType(types), <<path \o ".code" \o suffix>>)
            \o PushIf(hasCodeableConceptType(types), <<path \o ".coding.code" \o suffix>>)
            \o PushIf(hasIdentifierType(types) \/ hasContactPointType(types),
                      <<path \o ".value" \o suffix>>)
            \o PushIf(hasCodeType(types) \/ hasStringType(types)
                          \/ hasBooleanType(types) \/ hasIdType(types),
                      <<path \o suffix>>)
    IN  IF Len(selected) = 0
        THEN <<path \o ".code" \o suffix, path \o ".coding.code" \o suffix,
               path \o ".value" \o suffix, path \o suffix>>
        ELSE selected
\* the bare path is added for every boolean, suffix or not
codeFieldsKnownAlwaysBarePath(path, types, useSuffix, suffix) ==
    LET selected ==
            PushIf(hasCodingType(types), <<path \o ".code" \o suffix>>)
            \o PushIf(hasCodeableConceptType(types), <<path \o ".coding.code" \o suffix>>)
            \o PushIf(hasIdentifierType(types) \/ hasContactPointType(types),
                      <<path \o ".value" \o suffix>>)
            \o PushIf(hasCodeType(types) \/ hasStringType(types)
                          \/ hasBooleanType(types) \/ hasIdType(types),
                      PushIf(hasBooleanType(types), <<path>>)
                      \o <<path \o suffix>>)
    IN  IF Len(selected) = 0
        THEN <<path \o ".code" \o suffix, path \o ".coding.code" \o suffix,
               path \o ".value" \o suffix, path \o suffix>>
        ELSE selected
codeFieldsKnown(path, types, useSuffix, suffix) ==
    LET selected ==
            PushIf(hasCodingType(types), <<path \o ".code" \o suffix>>)
            \o PushIf(hasCodeableConceptType(types), <<path \o ".coding.code" \o suffix>>)
            \o PushIf(hasIdentifierType(types) \/ hasContactPointType(types),
                      <<path \o ".value" \o suffix>>)
            \o PushIf(hasCodeType(types) \/ hasStringType(types)
                          \/ hasBooleanType(types) \/ hasIdType(types),
                      PushIf(useSuffix /\ hasBooleanType(types), <<path>>)
                      \o <<path \o suffix>>)
    IN  IF Len(selected) = 0
        THEN <<path \o ".code" \o suffix, path \o ".coding.code" \o suffix,
               path \o ".value" \o suffix, path \o suffix>>
        ELSE selected

(* Code-field selection when the type is unknown, lines 146-156 *)

codeFieldsUnknownNoBarePath(path, useSuffix, suffix) ==
    <<path \o ".code" \o suffix, path \o ".coding.code" \o suffix,
      path \o ".value" \o suffix, path \o suffix>>
codeFieldsUnknown(path, useSuffix, suffix) ==
    <<path \o ".code" \o suffix, path \o ".coding.code" \o suffix,
      path \o ".value" \o suffix, path \o suffix>>
    \o PushIf(useSuffix, <<path>>)

codeFields(path, exists, types, useSuffix, suffix) ==
    IF exists
    THEN codeFieldsKnown(path, types, useSuffix, suffix)
    ELSE codeFieldsUnknown(path, useSuffix, suffix)

-----------------------------------------------------------------------------
(* The clauses, lines 92-98, 159-165 and 169-177 *)

systemClause(c, v, useKeyword) ==
    [multi_match |->
        [fields  |-> systemFields(c.path, dataTypeExists(c), dataTypes(c).items,
                                  keywordSuffix(c.path, useKeyword)),
         query   |-> v.system,
         lenient |-> TRUE]]

codeClause(c, v, useKeyword) ==
    [multi_match |->
        [fields  |-> codeFields(c.path, dataTypeExists(c), dataTypes(c).items,
                                useKeywordSuffix(c.path, useKeyword),
                                keywordSuffix(c.path, useKeyword)),
         query   |-> v.code,
         lenient |-> TRUE]]

absenceClause(c) ==
    [bool |-> [must_not |-> [exists |-> [field |-> c.path \o ".system"]]]]

\* `explicitNoSystemProperty` as a condition: undefined and false are falsy
explicitNoSystem(v) ==
    "explicitNoSystemProperty" \in DOMAIN v /\ v.explicitNoSystemProperty

\* the list `queries` after the three optional pushes
queriesAbsenceFirst(c, v, useKeyword) ==
    PushIf(explicitNoSystem(v), <<absenceClause(c)>>)
    \o PushIf("system" \in DOMAIN v, <<systemClause(c, v, useKeyword)>>)
    \o PushIf("code" \in DOMAIN v, <<codeClause(c, v, useKeyword)>>)
queries(c, v, useKeyword) ==
    PushIf("system" \in DOMAIN v, <<systemClause(c, v, useKeyword)>>)
    \o PushIf("code" \in DOMAIN v, <<codeClause(c, v, useKeyword)>>)
    \o PushIf(explicitNoSystem(v), <<absenceClause(c)>>)

\* lines 180-188
composeAlwaysWrap(qs) ==
    [bool |-> [must |-> qs]]
compose(qs) ==
    IF Len(qs) = 1 THEN qs[1] ELSE [bool |-> [must |-> qs]]

tokenQuery(c, v, useKeyword, mod) ==
    IF modifierRejected(mod)
    THEN [kind    |-> "throw",
          name    |-> "InvalidSearchParameterError",
          message |-> "Unsupported token search modifier: " \o (CHOOSE m \in mod : TRUE)]
    ELSE IF dataTypes(c).throws
    THEN readError
    ELSE IF ~dataTypes(c).array
    THEN forEachError(dataTypes(c))
    ELSE [kind |-> "return", result |-> compose(queries(c, v, useKeyword))]

-----------------------------------------------------------------------------
(* The state machine: the arguments are drawn, the function is applied *)

Init ==
    /\ tokenDataTypesMap \in TypeMaps
    /\ compiled \in [resourceType : ResourceTypes, path : Paths]
    /\ value \in TokenSearchValues
    /\ useKeywordSubFields \in BOOLEAN
    /\ modifier \in {{}} \cup {{m} : m \in ModifierValues}
    /\ outcome = [kind |-> "pending"]

Call ==
    /\ outcome.kind = "pending"
    /\ outcome' = tokenQuery(compiled, value, useKeywordSubFields, modifier)
    /\ UNCHANGED <<tokenDataTypesMap, compiled, value, useKeywordSubFields, modifier>>

Next == Call

Spec == Init /\ [][Next]_vars

TypeOK ==
    /\ outcome.kind \in {"pending", "return", "throw"}
    /\ Cardinality(modifier) <= 1

-----------------------------------------------------------------------------
(* Vocabulary of the properties, stated on the inputs and on the outcome *)

Returned == outcome.kind = "return"
Threw == outcome.kind = "throw"

SystemApplies == "system" \in DOMAIN value
CodeApplies == "code" \in DOMAIN value
AbsenceApplies ==
    "explicitNoSystemProperty" \in DOMAIN value /\ value.explicitNoSystemProperty = TRUE
NumApplying ==
    (IF SystemApplies THEN 1 ELSE 0) + (IF CodeApplies THEN 1 ELSE 0)
    + (IF AbsenceApplies THEN 1 ELSE 0)

IsComposite(q) == DOMAIN q = {"bool"} /\ DOMAIN q.bool = {"must"}
IsMultiMatch(q) == DOMAIN q = {"multi_match"}
IsAbsence(q) == DOMAIN q = {"bool"} /\ DOMAIN q.bool = {"must_not"}

\* the clauses of the returned fragment, in order
ResultClauses ==
    IF IsComposite(outcome.result) THEN outcome.result.bool.must ELSE <<outcome.result>>
SystemFieldsOfResult == ResultClauses[1].multi_match.fields
CodeFieldsOfResult == ResultClauses[IF SystemApplies THEN 2 ELSE 1].multi_match.fields

Range(seq) == {seq[i] : i \in DOMAIN seq}
NoDuplicates(seq) == \A i, j \in DOMAIN seq : i # j => seq[i] # seq[j]
EndsWith(str, suffix) ==
    Len(str) >= Len(suffix)
    /\ SubSeq(str, Len(str) - Len(suffix) + 1, Len(str)) = suffix

\* the suffix policy as the specification words it
P == compiled.path
SuffixActive == useKeywordSubFields /\ P # "id"
Sfx == IF SuffixActive THEN ".keyword" ELSE ""

\* the tags the type map holds for the compiled path
TypeKnown == dataTypeExists(compiled) /\ dataTypes(compiled).array
TagSet ==
    {dataTypes(compiled).items[i].code : i \in DOMAIN dataTypes(compiled).items}

FallbackSystemFields == <<P \o ".system" \o Sfx, P \o ".coding.system" \o Sfx>>
CanonicalCodeFields ==
    <<P \o ".code" \o Sfx, P \o ".coding.code" \o Sfx, P \o ".value" \o Sfx, P \o Sfx>>

-----------------------------------------------------------------------------
(* C1 *)

\* C1: a modifier that is set and not supported makes the call fail with
\* InvalidSearchParameterError ('Unsupported token search modifier: <m>');
\* without a modifier the call never fails, whatever the field, the value and
\* useKeywordSubFields are.
C1ModifierOnlyFailure ==
    outcome.kind # "pending" =>
        /\ \A m \in modifier :
               (m # "" /\ m \notin SUPPORTED_MODIFIERS) =>
                   outcome = [kind    |-> "throw",
                              name    |-> "InvalidSearchParameterError",
                              message |-> "Unsupported token search modifier: " \o m]
        /\ modifier = {} => Returned

-----------------------------------------------------------------------------
(* C2 *)

\* C2: with two or more applying components the result is {bool: {must: l}}
\* where l holds exactly one clause per applying component, in the order
\* system, code, absence.
C2Composite ==
    (Returned /\ NumApplying >= 2) =>
        /\ IsComposite(outcome.result)
        /\ LET must == outcome.result.bool.must
               codeAt == IF SystemApplies THEN 2 ELSE 1
           IN  /\ Len(must) = NumApplying
               /\ SystemApplies =>
                      must[1] = systemClause(compiled, value, useKeywordSubFields)
               /\ CodeApplies =>
                      must[codeAt] = codeClause(compiled, value, useKeywordSubFields)
               /\ AbsenceApplies => must[NumApplying] = absenceClause(compiled)

C2Witness ==
    Returned /\ NumApplying = 3 /\ value.system = "http://sys" /\ value.code = "123"

-----------------------------------------------------------------------------
(* C3 *)

\* C3: with exactly one applying component (a defined system or code, the
\* empty string included, or a truthy explicitNoSystemProperty) the result is
\* that clause itself, not a bool.must composite.
C3SingleClause ==
    (Returned /\ NumApplying = 1) =>
        /\ ~IsComposite(outcome.result)
        /\ SystemApplies =>
               outcome.result = systemClause(compiled, value, useKeywordSubFields)
        /\ CodeApplies =>
               outcome.result = codeClause(compiled, value, useKeywordSubFields)
        /\ AbsenceApplies => outcome.result = absenceClause(compiled)

C3Witness ==
    /\ Returned /\ NumApplying = 1 /\ SystemApplies /\ value.system = ""
    /\ IsMultiMatch(outcome.result)
    /\ outcome.result.multi_match.query = ""

-----------------------------------------------------------------------------
(* C4 *)

\* C4: with system and code undefined, explicitNoSystemProperty falsy and no
\* modifier, the call returns the empty composite {bool: {must: []}}, for
\* every field and every useKeywordSubFields.
C4EmptyComposite ==
    (outcome.kind # "pending" /\ modifier = {} /\ NumApplying = 0) =>
        /\ Returned
        /\ outcome.result = [bool |-> [must |-> <<>>]]

-----------------------------------------------------------------------------
(* C5 *)

\* C5 as stated: a known type without any recognized tag selects the same
\* system and code field lists as the unknown type does on the same inputs.
C5Original ==
    (Returned /\ TypeKnown /\ TagSet \cap RecognizedTags = {}) =>
        /\ SystemApplies =>
               SystemFieldsOfResult = systemFields(P, FALSE, <<>>, keywordSuffix(P, useKeywordSubFields))
        /\ CodeApplies =>
               CodeFieldsOfResult =
                   codeFields(P, FALSE, <<>>, useKeywordSuffix(P, useKeywordSubFields),
                              keywordSuffix(P, useKeywordSubFields))

\* C5 amended: a known type without any recognized tag selects the two
\* fallback system fields, as the unknown type does, and the four canonical
\* code fields; unlike the unknown type it never adds the bare path, so the
\* code lists agree exactly when the keyword suffix is not active.
C5Amended ==
    (Returned /\ TypeKnown /\ TagSet \cap RecognizedTags = {}) =>
        /\ SystemApplies => SystemFieldsOfResult = FallbackSystemFields
        /\ CodeApplies => CodeFieldsOfResult = CanonicalCodeFields

C5Witness ==
    /\ Returned /\ TypeKnown /\ TagSet = {"uri"}
    /\ SystemApplies /\ CodeApplies /\ SuffixActive

-----------------------------------------------------------------------------
(* C6 *)

\* C6: when the resource type or the path is missing from the type map, the
\* system fields are exactly <path>.system<suffix> and
\* <path>.coding.system<suffix>, and the code fields are exactly the four
\* canonical fields plus the bare path if useKeywordSubFields is true, each
\* field once (for path id the bare path is the fourth canonical field).
C6UnknownType ==
    (Returned /\ ~dataTypeExists(compiled)) =>
        /\ SystemApplies =>
               /\ Range(SystemFieldsOfResult) = Range(FallbackSystemFields)
               /\ Len(SystemFieldsOfResult) = 2
        /\ CodeApplies =>
               LET expected ==
                       Range(CanonicalCodeFields)
                       \cup (IF useKeywordSubFields THEN {P} ELSE {})
               IN  /\ Range(CodeFieldsOfResult) = expected
                   /\ Len(CodeFieldsOfResult) = Cardinality(expected)

C6Witness ==
    /\ Returned /\ ~dataTypeExists(compiled)
    /\ compiled.resourceType \in DOMAIN tokenDataTypesMap
    /\ SystemApplies /\ CodeApplies /\ SuffixActive

-----------------------------------------------------------------------------
(* C7 *)

\* C7 as stated: with boolean among the tags, code defined and
\* useKeywordSubFields true, the code fields include both <path> and
\* <path>.keyword, whatever the path.
C7Original ==
    (Returned /\ "boolean" \in TagSet /\ CodeApplies /\ useKeywordSubFields) =>
        /\ P \in Range(CodeFieldsOfResult)
        /\ (P \o ".keyword") \in Range(CodeFieldsOfResult)

\* C7 amended: the same, for every path outside the exclusion set {id}.
C7Amended ==
    (Returned /\ "boolean" \in TagSet /\ CodeApplies /\ useKeywordSubFields
        /\ P # "id") =>
        /\ P \in Range(CodeFieldsOfResult)
        /\ (P \o ".keyword") \in Range(CodeFieldsOfResult)

C7Witness ==
    /\ Returned /\ TagSet = {"boolean", "Coding"} /\ CodeApplies
    /\ useKeywordSubFields /\ P = "active"

-----------------------------------------------------------------------------
(* C8 *)

\* C8: for path "id" no field name of any returned clause ends in .keyword.
C8IdNeverKeyword ==
    (Returned /\ P = "id") =>
        \A i \in DOMAIN ResultClauses :
            LET q == ResultClauses[i]
            IN  /\ IsMultiMatch(q) =>
                       \A f \in Range(q.multi_match.fields) : ~EndsWith(f, ".keyword")
                /\ IsAbsence(q) => ~EndsWith(q.bool.must_not.exists.field, ".keyword")

C8Witness ==
    /\ Returned /\ P = "id" /\ useKeywordSubFields /\ NumApplying = 3
    /\ TypeKnown /\ TagSet = {"id"}

-----------------------------------------------------------------------------
(* C9 *)

\* C9: when the type is known and a rule of a selector matches, the selector
\* yields exactly the matching rules' fields and nothing of the fallback.
C9RuleFields ==
    (Returned /\ TypeKnown) =>
        /\ (SystemApplies /\ TagSet \cap {"Identifier", "Coding", "CodeableConcept"} # {}) =>
               LET fs == Range(SystemFieldsOfResult)
               IN  /\ fs \subseteq Range(FallbackSystemFields)
                   /\ (P \o ".system" \o Sfx) \in fs
                          <=> TagSet \cap {"Identifier", "Coding"} # {}
                   /\ (P \o ".coding.system" \o Sfx) \in fs
                          <=> "CodeableConcept" \in TagSet
        /\ (CodeApplies /\ TagSet \cap RecognizedTags # {}) =>
               LET fs == Range(CodeFieldsOfResult)
               IN  /\ fs \subseteq Range(CanonicalCodeFields) \cup {P}
                   /\ (P \o ".code" \o Sfx) \in fs <=> "Coding" \in TagSet
                   /\ (P \o ".coding.code" \o Sfx) \in fs <=> "CodeableConcept" \in TagSet
                   /\ (P \o ".value" \o Sfx) \in fs
                          <=> TagSet \cap {"Identifier", "ContactPoint"} # {}
                   /\ (P \o Sfx) \in fs
                          <=> TagSet \cap {"code", "string", "boolean", "id"} # {}
                   /\ SuffixActive => (P \in fs <=> "boolean" \in TagSet)

C9Witness ==
    /\ Returned /\ TypeKnown /\ TagSet = {"Coding", "ContactPoint"}
    /\ SystemApplies /\ CodeApplies /\ SuffixActive

-----------------------------------------------------------------------------
(* C10 *)

\* C10: every multi_match clause returned has a non-empty field list without
\* a repeated field name.
C10FieldsNonEmptyDistinct ==
    Returned =>
        \A i \in DOMAIN ResultClauses :
            IsMultiMatch(ResultClauses[i]) =>
                /\ Len(ResultClauses[i].multi_match.fields) > 0
                /\ NoDuplicates(ResultClauses[i].multi_match.fields)

C10Witness ==
    /\ Returned /\ "boolean" \in TagSet /\ CodeApplies /\ ~SystemApplies
    /\ useKeywordSubFields /\ P = "id"
    /\ CodeFieldsOfResult = <<"id">>

=============================================================================
